---- MODULE Spec2Model ----
(***************************************************************************)
(* training-scheduler: the SchedulingClient run loop                       *)
(* (src/training_scheduler/client.py) over a LocalDirectoryAdapter         *)
(* (src/training_scheduler/directory_adapters.py).                         *)
(*                                                                         *)
(* The store is three directories (planned, active, completed) holding job *)
(* files, a name possibly in several of them, plus the output sidecars     *)
(* "<identifier>.out" of the completed directory.  The adapter keeps the dict identifier_states; the client    *)
(* keeps the dict config_consumers and the locals of run().                *)
(***************************************************************************)
EXTENDS Integers, Sequences, FiniteSets, TLC

(* ------------------------------ bounds -------------------------------- *)

\* time() when the script starts; the clock never reads 0
StartTime == 3
\* the clock is followed for MaxTicks ticks after StartTime
MaxTicks == 2
\* polls of the main loop that are followed
MaxPolls == 2
\* job files dropped into planned/ by the operator while the script runs
MaxAdds == 1
\* direct calls of write_output are followed up to MaxChunks writes in a sidecar
MaxChunks == 3

(* ----------------------------- universe ------------------------------- *)

\* names of job files (the local adapter's identifiers are file names)
Ids == {"a.yaml", "b.yaml"}

\* ConfigState = Enum("ConfigState", "planned active completed")
ConfigState == {"planned", "active", "completed"}

\* classes decorated with @trainingconfig, hence known to the yaml codec
Types == {"A", "B"}

\* class B defines __len__ and its instances are empty: bool(B(...)) is False
FalsyTypes == {"B"}

\* What yaml.safe_load makes of a job file:
\*   a type    the document carries that class's tag and fits its fields
\*   "empty"   an empty document: safe_load returns None
\*   "fields"  a known tag whose fields the class rejects: TypeError
\*   "broken"  a yaml syntax error or a tag no constructor knows: YAMLError
DocKinds == Types \cup {"empty", "fields", "broken"}

\* no file of that name in that directory
NoFile == "nofile"

\* consumer functions a script can register: "two" takes (config, identifier)
\* and may return any result, raise an Exception, or raise SystemExit or
\* KeyboardInterrupt (sys.exit() in the consumer, Ctrl-C while it runs); "one"
\* takes the config alone and its body never raises
Consumers == {"one", "two"}
NoConsumer == "-"

\* values a consumer returns, as python literals; "os" is the module object of
\* the test suite, which json cannot serialize
Results == {"None", "'hi'", "os"}

\* timeout=None
NoTimeout == -1

Untracked == "untracked"
NoId == "-"

VARIABLES
    doc,                         \* the store: what the file <directory>/<name> decodes to
    out,                         \* completed/<identifier>.out: does it exist, what was written
    identifier_states,           \* DirectoryAdapter.identifier_states
    order,                       \* insertion order of the keys of identifier_states
    config_consumers,            \* SchedulingClient.config_consumers
    consumer_fns,                \* the consumer functions the script defines
    durations,                   \* how long a call of a consumer can take
    timeout,                     \* SchedulingClient.timeout
    min_polling_interval,        \* SchedulingClient.min_polling_interval
    debug,                       \* run(debug=...)
    resume_active_configs,       \* run(resume_active_configs=...)
    now,                         \* what time() returns
    time_of_last_poll,           \* local of run()
    time_of_last_nonempty_poll,  \* local of run()
    pc,                          \* where the script is
    identifiers,                 \* the rest of the list the current for loop walks
    identifier,                  \* loop variable of the for loop
    config,                      \* local of run(): what get_config returned
    result,                      \* local of run(): what the consumer returned
    cs,                          \* the frame of the change_state call in progress
    exc,                         \* the exception that last reached the caller
    hooks,                       \* callback notifications of the current iteration
    faults,                      \* kinds of I/O failure the store can show
    polls,                       \* history: polls of the main loop so far
    adds,                        \* history: files added by the operator so far
    active_at_start,             \* history: active/ when run() started
    out_at_start,                \* history: the sidecars when run() started
    returned,                    \* history: how the consumer of a job ended
    written                      \* history: how writing a job's result ended

vars == <<doc, out, identifier_states, order, config_consumers, consumer_fns,
          durations, timeout,
          min_polling_interval, debug, resume_active_configs, now,
          time_of_last_poll, time_of_last_nonempty_poll, pc, identifiers,
          identifier, config, result, cs, exc, hooks, faults, polls, adds,
          active_at_start, out_at_start, returned, written>>

store == <<doc, out>>
adapter == <<identifier_states, order>>
settings == <<config_consumers, consumer_fns, durations, timeout, min_polling_interval>>
runargs == <<debug, resume_active_configs>>
clock == <<now, time_of_last_poll, time_of_last_nonempty_poll>>
locals == <<identifiers, identifier, config, result>>
history == <<polls, active_at_start, out_at_start, returned, written>>

(* --------------------------- the adapter ------------------------------ *)

\* LocalDirectoryAdapter.directories, as os.scandir shows them: the names of
\* the job files of each directory
dirs == [d \in ConfigState |-> {i \in Ids : doc[i][d] # NoFile}]

\* _allowed_state_changes
allowed_state_changes == {<<"planned", "active">>, <<"active", "completed">>}

\* the keys of identifier_states
Tracked == {i \in Ids : identifier_states[i] # Untracked}

\* the orders in which os.scandir can yield the entries S
Orders(S) ==
    {s \in [1..Cardinality(S) -> S] :
        \A a, b \in 1..Cardinality(S) : a # b => s[a] # s[b]}

\* a scan that looks into every directory
NewEntriesAnywhere(state) ==
    {i \in Ids : (\E d \in ConfigState : i \in dirs[d]) /\ i \notin Tracked}

\* poll_directory, the scan: the entries of the directory that are not yet keys
\* (every job file is a regular file named *.yaml)
NewEntries(state) == {i \in dirs[state] : i \notin Tracked}

\* poll_directory, the scan: identifier_states after _add_identifier of the new entries
Registered(state) ==
    [i \in Ids |-> IF i \in NewEntries(state) THEN state ELSE identifier_states[i]]

\* a poll that returns every key, whatever its state
poll_result_any(table, keys, state) == keys

\* poll_directory, the return value: the keys at that state, in dict order
poll_result(table, keys, state) == SelectSeq(keys, LAMBDA i : table[i] = state)

\* a change_state that validates nothing
InvalidChangeOff(old_state, next_state, validate_change) == FALSE

\* change_state: the check that raises ValueError
InvalidChange(old_state, next_state, validate_change) ==
    validate_change /\ <<old_state, next_state>> \notin allowed_state_changes

\* a _move_to_state that moves nothing
MovedFilesSkipped(i, old_state, new_state) == doc

\* _move_to_state / _move_to_dir: the store after os.rename, which takes the
\* file out of the old directory and puts it, content and all, in the place of
\* whatever had that name in the new one
MovedFiles(i, old_state, new_state) ==
    IF old_state = new_state
    THEN doc
    ELSE [doc EXCEPT ![i] = [@ EXCEPT ![new_state] = doc[i][old_state],
                                      ![old_state] = NoFile]]

\* _move_to_dir: how os.rename can end.  A missing source raises; otherwise the
\* file is moved, replacing a file of the same name in the target directory.
\* On a store with the fault "move" the rename can also fail: an I/O error, or
\* a platform that refuses to replace a file (Windows raises FileExistsError).
MoveOutcomes(i, old_state, new_state) ==
    IF i \notin dirs[old_state] THEN {"raise"}
    ELSE {"ok"} \cup (IF "move" \in faults THEN {"raise"} ELSE {})

\* get_config: what yaml.safe_load yields for the file planned/<identifier>;
\* a TypeError is caught and the method falls through, returning None
get_config(i) ==
    IF i \notin dirs["planned"] THEN [raises |-> "FileNotFoundError", value |-> "None"]
    ELSE IF doc[i]["planned"] = "broken" THEN [raises |-> "YAMLError", value |-> "None"]
    ELSE IF doc[i]["planned"] \in {"empty", "fields"} THEN [raises |-> "", value |-> "None"]
    ELSE [raises |-> "", value |-> doc[i]["planned"]]

\* texts a caller of write_output passes
Outputs == {"\"hi\""}

\* json.dumps(result)
Serializable(r) == r \in {"None", "'hi'"}
json_dumps(r) ==
    CASE r = "'hi'" -> "\"hi\""
      [] r = "None" -> "null"

\* write_output: open(..., 'a') creates the sidecar, write appends to it
Appended(i, text) == [out EXCEPT ![i] = [exists |-> TRUE, chunks |-> Append(@.chunks, text)]]
Created(i) == [out EXCEPT ![i].exists = TRUE]

\* write_output: what a write that fails can have put into the file before the
\* OSError: any part of the text short of the whole, from its first character on
Parts(text) == {SubSeq(text, 1, n) : n \in 0..(Len(text) - 1)}
\* the sidecar after such a write: created by open, the part appended
Torn(i, part) == IF part = "" THEN Created(i) ELSE Appended(i, part)

\* write_output: how it can end on a failing store: open fails, or write fails
WriteOutcomes == {"ok"} \cup (IF "write" \in faults THEN {"open_fails", "write_fails"} ELSE {})

\* write_output(identifier, output): the sidecars it can leave when it ends as o.
\* It looks neither at the table nor at the directory the job file is in.
write_output(i, output, o) ==
    CASE o = "ok" -> {Appended(i, output)}
      [] o = "open_fails" -> {out}
      [] o = "write_fails" -> {Torn(i, part) : part \in Parts(output)}

(* ---------------------- change_state, in two steps -------------------- *)

NoCall == [identifier |-> NoId, next_state |-> "planned", validate_change |-> TRUE,
           ret |-> "-", onraise |-> "-"]

Call(i, next_state, validate_change, ret, onraise) ==
    [identifier |-> i, next_state |-> next_state, validate_change |-> validate_change,
     ret |-> ret, onraise |-> onraise]

\* change_state, lines 47-52: look the state up, validate, move the file
ChangeStateMove ==
    /\ pc = "change_state"
    /\ IF cs.identifier \notin Tracked
       THEN /\ pc' = cs.onraise
            /\ exc' = "KeyError"
            /\ cs' = NoCall
            /\ UNCHANGED doc
       ELSE LET old_state == identifier_states[cs.identifier] IN
            IF InvalidChange(old_state, cs.next_state, cs.validate_change)
            THEN /\ pc' = cs.onraise
                 /\ exc' = "ValueError"
                 /\ cs' = NoCall
                 /\ UNCHANGED doc
            ELSE \E o \in MoveOutcomes(cs.identifier, old_state, cs.next_state) :
                    IF o = "ok"
                    THEN /\ doc' = MovedFiles(cs.identifier, old_state, cs.next_state)
                         /\ pc' = "record_state"
                         /\ UNCHANGED <<exc, cs>>
                    ELSE /\ pc' = cs.onraise
                         /\ exc' = "OSError"
                         /\ cs' = NoCall
                         /\ UNCHANGED doc
    /\ UNCHANGED <<out, adapter, settings, runargs, clock, locals, hooks,
                   faults, adds, history>>

\* change_state, line 53: record the new state
ChangeStateRecord ==
    /\ pc = "record_state"
    /\ identifier_states' = [identifier_states EXCEPT ![cs.identifier] = cs.next_state]
    /\ pc' = cs.ret
    /\ cs' = NoCall
    /\ UNCHANGED <<store, order, settings, runargs, clock, locals, exc, hooks,
                   faults, adds, history>>

(* --------------------------- the client ------------------------------- *)

\* the methods of SchedulingClientCallback that run() calls
HookNames == {"config_loaded", "unregistered_config", "failed_to_run_config",
              "failed_to_write_result", "no_configs_found", "waiting_for_next_poll",
              "timeout"}

\* the script's callback overrides that method with one that raises
HookRaises(name) == name \in faults

MaxTime == StartTime + MaxTicks

Running == pc \notin {"setup", "returned", "raised", "api"}

\* register_config, line 148: the message of the exception names the class
AlreadyRegistered(config_class) == "There already is a consumer for " \o config_class

\* a register_config that replaces the consumer of a class
register_config_replacing(config_class, consumer_fn) ==
    /\ pc = "setup"
    /\ config_consumers' = [config_consumers EXCEPT ![config_class] = consumer_fn]
    /\ UNCHANGED <<store, adapter, consumer_fns, durations, timeout,
                   min_polling_interval, runargs,
                   clock, pc, locals, cs, exc, hooks, faults, adds, history>>

\* register_config
register_config(config_class, consumer_fn) ==
    /\ pc = "setup"
    /\ IF config_consumers[config_class] # NoConsumer
       THEN /\ exc' = AlreadyRegistered(config_class)
            /\ UNCHANGED config_consumers
       ELSE /\ config_consumers' = [config_consumers EXCEPT ![config_class] = consumer_fn]
            /\ UNCHANGED exc
    /\ UNCHANGED <<store, adapter, consumer_fns, durations, timeout,
                   min_polling_interval, runargs,
                   clock, pc, locals, cs, hooks, faults, adds, history>>

\* a run that counts the idle time from its own start
InitialLastNonemptyPollNow == now

\* run, line 183: "time_of_last_nonempty_poll = 0"
InitialLastNonemptyPoll == 0

\* run(debug, resume_active_configs), up to the loop: lines 180-183
Run ==
    /\ pc = "setup"
    /\ debug' \in BOOLEAN
    /\ resume_active_configs' \in BOOLEAN
    /\ pc' = IF resume_active_configs' THEN "resume" ELSE "poll"
    /\ time_of_last_nonempty_poll' = InitialLastNonemptyPoll
    /\ active_at_start' = dirs["active"]
    /\ out_at_start' = out
    /\ exc' = ""
    /\ UNCHANGED <<store, adapter, settings, now, time_of_last_poll, locals, cs, hooks,
                   faults, adds, polls, returned, written>>

\* a recovery that polls the wrong directory
ResumeStateCompleted == "completed"

\* _resume_active_configs polls this directory
ResumeState == "active"

\* a recovery that leaves the validation on
ResumeValidateOn == TRUE

\* _resume_active_configs calls change_state with this validate_change
ResumeValidate == FALSE

\* _resume_active_configs, line 154: active_configs = poll_directory(active)
ResumePoll ==
    /\ pc = "resume"
    /\ \E scan \in Orders(NewEntries(ResumeState)) :
          /\ identifier_states' = Registered(ResumeState)
          /\ order' = order \o scan
          /\ identifiers' = poll_result(Registered(ResumeState), order \o scan, ResumeState)
    /\ pc' = "resume_for"
    /\ UNCHANGED <<store, settings, runargs, clock, identifier, config, result, cs, exc,
                   hooks, faults, adds, history>>

\* a recovery that registers the active jobs and moves none of them back
ResumeNextSkips ==
    /\ pc = "resume_for"
    /\ identifiers' = <<>>
    /\ pc' = "poll"
    /\ UNCHANGED <<store, adapter, settings, runargs, clock, identifier, config, result,
                   cs, exc, hooks, faults, adds, history>>

\* _resume_active_configs, lines 162-165: the next change_state(identifier, planned,
\* validate_change=False), or the end of the recovery
ResumeNext ==
    /\ pc = "resume_for"
    /\ IF identifiers = <<>>
       THEN /\ pc' = "poll"
            /\ UNCHANGED <<identifiers, identifier, cs>>
       ELSE /\ identifier' = Head(identifiers)
            /\ identifiers' = Tail(identifiers)
            /\ cs' = Call(Head(identifiers), "planned", ResumeValidate, "resume_for", "raised")
            /\ pc' = "change_state"
    /\ UNCHANGED <<store, adapter, settings, runargs, clock, config, result, exc, hooks,
                   faults, adds, history>>

\* run, lines 187-192 and 226-227: poll(), the time of the poll, the empty poll
Poll ==
    /\ pc = "poll"
    /\ polls < MaxPolls
    /\ \E scan \in Orders(NewEntries("planned")) :
          LET found == poll_result(Registered("planned"), order \o scan, "planned") IN
          /\ identifier_states' = Registered("planned")
          /\ order' = order \o scan
          /\ identifiers' = found
          /\ time_of_last_nonempty_poll' =
                IF Len(found) > 0 THEN now ELSE time_of_last_nonempty_poll
          /\ hooks' = IF Len(found) > 0 THEN {} ELSE {<<"no_configs_found", NoId>>}
          /\ IF Len(found) = 0 /\ HookRaises("no_configs_found")
             THEN pc' = "raised" /\ exc' = "HookError"
             ELSE pc' = "for" /\ UNCHANGED exc
    /\ time_of_last_poll' = now
    /\ polls' = polls + 1
    /\ UNCHANGED <<store, settings, runargs, now, identifier, config, result, cs,
                   faults, adds, active_at_start, out_at_start, returned, written>>

\* bool(config): None is false, and so is an instance of a class whose __len__
\* returns 0
Truthy(c) == c # "None" /\ c \notin FalsyTypes

\* a dispatch that does not look the type up
DispatchableAnyType(c) == Truthy(c)

\* run, line 203: "if config and type(config) in self.config_consumers"
Dispatchable(c) == Truthy(c) /\ config_consumers[c] # NoConsumer

\* run, lines 195-205 and 224-225: the next identifier of the poll is decoded,
\* reported, and either activated or reported as unregistered
GetConfig ==
    /\ pc = "for"
    /\ identifiers # <<>>
    /\ LET i == Head(identifiers)
           got == get_config(i) IN
       /\ identifier' = i
       /\ identifiers' = Tail(identifiers)
       /\ IF got.raises # ""
          THEN /\ pc' = "raised"
               /\ exc' = got.raises
               /\ UNCHANGED <<config, hooks, cs>>
          ELSE /\ config' = got.value
               /\ IF HookRaises("config_loaded")
                  THEN /\ hooks' = hooks \cup {<<"config_loaded", i>>}
                       /\ pc' = "raised"
                       /\ exc' = "HookError"
                       /\ UNCHANGED cs
                  ELSE IF Dispatchable(got.value)
                  THEN /\ hooks' = hooks \cup {<<"config_loaded", i>>}
                       /\ cs' = Call(i, "active", TRUE, "run_consumer", "raised")
                       /\ pc' = "change_state"
                       /\ UNCHANGED exc
                  ELSE /\ hooks' = hooks \cup {<<"config_loaded", i>>,
                                               <<"unregistered_config", i>>}
                       /\ IF HookRaises("unregistered_config")
                          THEN pc' = "raised" /\ exc' = "HookError"
                          ELSE pc' = "for" /\ UNCHANGED exc
                       /\ UNCHANGED cs
    /\ UNCHANGED <<store, adapter, settings, runargs, clock, result, faults, adds, history>>

\* how the call consumer_fn(config, identifier) can end: with a result, with
\* an Exception ("raise"), or with a BaseException that is no Exception
\* ("exit": SystemExit, KeyboardInterrupt); a function of one parameter raises
\* TypeError before it runs
ConsumerOutcomes(consumer_fn) ==
    IF consumer_fn = "one" THEN {"raise"} ELSE Results \cup {"raise", "exit"}

\* handlers that raise again whatever the mode, or never
ReraiseAlways(dbg) == TRUE
ReraiseNever(dbg) == FALSE

\* "if debug: raise e"
Reraise(dbg) == dbg

\* a run that writes the result whatever it is
HasResultAlways(r) == TRUE

\* run, line 211: "if result is not None"
HasResult(r) == r # "None"

\* a debug mode that ends the run after the first consumer, whatever it did
RunConsumerStopsInDebug(dbg) ==
    /\ pc = "run_consumer"
    /\ \E r \in Results :
          /\ returned' = [returned EXCEPT ![identifier] = r]
          /\ result' = r
    /\ IF dbg
       THEN /\ pc' = "raised"
            /\ exc' = "ConsumerError"
            /\ UNCHANGED cs
       ELSE /\ pc' = "change_state"
            /\ cs' = [identifier |-> identifier, next_state |-> "completed",
                      validate_change |-> TRUE, ret |-> "for", onraise |-> "raised"]
            /\ UNCHANGED exc
    /\ UNCHANGED <<store, adapter, settings, runargs, clock, identifiers, identifier,
                   config, hooks, faults, adds, polls, active_at_start, out_at_start,
                   written>>

\* run, lines 208-209 and 218-220, in the mode dbg: the consumer runs; its
\* Exception is reported and, in debug mode, raised again
RunConsumerIn(dbg) ==
    /\ pc = "run_consumer"
    /\ \E d \in durations, r \in ConsumerOutcomes(config_consumers[config]) :
          /\ now + d <= MaxTime
          /\ now' = now + d
          /\ returned' = [returned EXCEPT ![identifier] = r]
          /\ IF r = "exit"
             THEN \* "except Exception" does not catch it: it leaves run()
                  /\ pc' = "raised"
                  /\ exc' = "SystemExit"
                  /\ UNCHANGED <<result, hooks, cs>>
             ELSE IF r = "raise"
             THEN /\ hooks' = hooks \cup {<<"failed_to_run_config", identifier>>}
                  /\ UNCHANGED result
                  /\ IF HookRaises("failed_to_run_config")
                     THEN /\ pc' = "raised"
                          /\ exc' = "HookError"
                          /\ UNCHANGED cs
                     ELSE IF Reraise(dbg)
                     THEN /\ pc' = "raised"
                          /\ exc' = "ConsumerError"
                          /\ UNCHANGED cs
                     ELSE /\ pc' = "change_state"
                          /\ cs' = Call(identifier, "completed", TRUE, "for", "raised")
                          /\ UNCHANGED exc
             ELSE /\ result' = r
                  /\ UNCHANGED <<hooks, exc>>
                  /\ IF HasResult(r)
                     THEN /\ pc' = "write_output"
                          /\ UNCHANGED cs
                     ELSE /\ pc' = "change_state"
                          /\ cs' = Call(identifier, "completed", TRUE, "for", "raised")
    /\ UNCHANGED <<store, adapter, settings, runargs, time_of_last_poll,
                   time_of_last_nonempty_poll, identifiers, identifier, config,
                   faults, adds, polls, active_at_start, out_at_start, written>>

\* run(debug=...), lines 208-209 and 218-220
RunConsumer == RunConsumerIn(debug)

\* run, lines 214-220: a failure of json.dumps or write_output is reported; in
\* debug mode it is raised again inside the outer try, whose handler reports it
\* as a failed run and raises it once more.  An exception of the
\* failed-to-write hook is raised inside the outer try as well.
WriteFailed(dbg, kind, error) ==
    /\ written' = [written EXCEPT ![identifier] = kind]
    /\ IF HookRaises("failed_to_write_result")
       THEN /\ hooks' = hooks \cup {<<"failed_to_write_result", identifier>>,
                                    <<"failed_to_run_config", identifier>>}
            /\ IF Reraise(dbg) \/ HookRaises("failed_to_run_config")
               THEN /\ pc' = "raised"
                    /\ exc' = "HookError"
                    /\ UNCHANGED cs
               ELSE /\ pc' = "change_state"
                    /\ cs' = Call(identifier, "completed", TRUE, "for", "raised")
                    /\ UNCHANGED exc
       ELSE IF Reraise(dbg)
       THEN /\ hooks' = hooks \cup {<<"failed_to_write_result", identifier>>,
                                    <<"failed_to_run_config", identifier>>}
            /\ pc' = "raised"
            /\ exc' = IF HookRaises("failed_to_run_config") THEN "HookError" ELSE error
            /\ UNCHANGED cs
       ELSE /\ hooks' = hooks \cup {<<"failed_to_write_result", identifier>>}
            /\ pc' = "change_state"
            /\ cs' = Call(identifier, "completed", TRUE, "for", "raised")
            /\ UNCHANGED exc

\* run, lines 210-212 and 223, in the mode dbg: json.dumps(result), then
\* write_output
WriteOutputIn(dbg) ==
    /\ pc = "write_output"
    /\ IF ~Serializable(result)
       THEN /\ WriteFailed(dbg, "serialize", "TypeError")
            /\ UNCHANGED out
       ELSE \E o \in WriteOutcomes :
               /\ out' \in write_output(identifier, json_dumps(result), o)
               /\ IF o = "ok"
                  THEN /\ written' = [written EXCEPT ![identifier] = "ok"]
                       /\ pc' = "change_state"
                       /\ cs' = Call(identifier, "completed", TRUE, "for", "raised")
                       /\ UNCHANGED <<hooks, exc>>
                  ELSE WriteFailed(dbg, "write", "OSError")
    /\ UNCHANGED <<doc, adapter, settings, runargs, clock, locals, faults, adds,
                   polls, active_at_start, out_at_start, returned>>

\* run(debug=...), lines 210-212 and 223
WriteOutput == WriteOutputIn(debug)

\* a timeout check that does not ask whether a timeout is set
TimedOutUnset == now - time_of_last_nonempty_poll > timeout

\* run, line 230: "self.timeout and time() - time_of_last_nonempty_poll > self.timeout"
TimedOut ==
    /\ timeout # NoTimeout
    /\ timeout # 0
    /\ now - time_of_last_nonempty_poll > timeout

\* a pacing that forgets the time the iteration took
time_delta_full == min_polling_interval

\* run, line 235
time_delta == min_polling_interval - (now - time_of_last_poll)

EndOfIteration == pc = "for" /\ identifiers = <<>>

\* run, lines 230-232
Timeout ==
    /\ EndOfIteration
    /\ TimedOut
    /\ hooks' = hooks \cup {<<"timeout", NoId>>}
    /\ IF HookRaises("timeout")
       THEN pc' = "raised" /\ exc' = "HookError"
       ELSE pc' = "returned" /\ UNCHANGED exc
    /\ UNCHANGED <<store, adapter, settings, runargs, clock, locals, cs, faults,
                   adds, history>>

\* run, lines 235-238: the waiting hook and the sleep
Wait ==
    /\ EndOfIteration
    /\ ~TimedOut
    /\ time_delta > 0
    /\ now + time_delta <= MaxTime
    /\ hooks' = hooks \cup {<<"waiting_for_next_poll", ToString(time_delta)>>}
    /\ IF HookRaises("waiting_for_next_poll")
       THEN pc' = "raised" /\ exc' = "HookError" /\ UNCHANGED now
       ELSE pc' = "poll" /\ now' = now + time_delta /\ UNCHANGED exc
    /\ UNCHANGED <<store, adapter, settings, runargs, time_of_last_poll,
                   time_of_last_nonempty_poll, locals, cs, faults, adds, history>>

\* run, lines 235-236 when time_delta <= 0: the next iteration starts at once
PollAgain ==
    /\ EndOfIteration
    /\ ~TimedOut
    /\ time_delta <= 0
    /\ pc' = "poll"
    /\ UNCHANGED <<store, adapter, settings, runargs, clock, locals, cs, exc, hooks,
                   faults, adds, history>>

(* -------------------------- the environment --------------------------- *)

\* time passes between two iterations
Tick ==
    /\ pc = "poll"
    /\ polls > 0
    /\ now < MaxTime
    /\ now' = now + 1
    /\ UNCHANGED <<store, adapter, settings, runargs, time_of_last_poll,
                   time_of_last_nonempty_poll, pc, locals, cs, exc, hooks, faults,
                   adds, history>>

\* The operator drops a job file into planned/ while the script runs, under any
\* name that is free in planned/.  The script sees planned/ only when it polls,
\* so it is enough to let files arrive between two iterations; what is there
\* before the first poll is part of the initial store.
AddFile ==
    /\ pc = "poll"
    /\ polls > 0
    /\ adds < MaxAdds
    /\ \E i \in Ids, k \in DocKinds :
          /\ i \notin dirs["planned"]
          /\ doc' = [doc EXCEPT ![i]["planned"] = k]
    /\ adds' = adds + 1
    /\ UNCHANGED <<out, adapter, settings, runargs, clock, pc, locals, cs, exc, hooks,
                   faults, history>>

(* ------------------------------ start --------------------------------- *)

NoOutput == [exists |-> FALSE, chunks |-> <<>>]
EarlierOutput == [exists |-> TRUE, chunks |-> <<"\"hi\"">>]

\* the files of one name: nowhere, or in the directories ds
NoFiles == [d \in ConfigState |-> NoFile]
FilesIn(ds) ==
    {f \in [ConfigState -> DocKinds \cup {NoFile}] :
        /\ \A d \in ConfigState : f[d] # NoFile <=> d \in ds
        /\ f["completed"] \in {NoFile, "A"}}

\* The stores the runs start on.  The constructors take the store as it is:
\* job files put there by the operator or left by an earlier run, and the
\* sidecars that run wrote.  The files of completed/ are never read, so those
\* of the initial store all hold the same document.
\*   SeparateStores   every name in one directory at most
\*   CollidingStores  a.yaml in several directories at once
SeparateStores ==
    {s \in [doc : [Ids -> {NoFiles} \cup UNION {FilesIn({d}) : d \in ConfigState}],
            out : [Ids -> {NoOutput, EarlierOutput}]] :
        \A i \in Ids : s.doc[i] = NoFiles => s.out[i] = NoOutput}

CollidingStores ==
    {s \in [doc : [Ids -> {NoFiles} \cup UNION {FilesIn(ds) : ds \in SUBSET ConfigState}],
            out : [Ids -> {NoOutput, EarlierOutput}]] :
        /\ Cardinality({d \in ConfigState : s.doc["a.yaml"][d] # NoFile}) >= 2
        /\ s.doc["b.yaml"] = NoFiles
        /\ s.out["b.yaml"] = NoOutput}

Stores == SeparateStores \cup CollidingStores

\* The state after "SchedulingClient(LocalDirectoryAdapter(base_dir), ...)":
\* the store is as it was found, the table and the registry are empty.
InitWith(start, timeouts, intervals, faultsets, fns, durs) ==
    /\ \E s \in Stores : doc = s.doc /\ out = s.out
    /\ identifier_states = [i \in Ids |-> Untracked]
    /\ order = <<>>
    /\ config_consumers = [t \in Types |-> NoConsumer]
    /\ consumer_fns = fns
    /\ durations = durs
    /\ timeout \in timeouts
    /\ min_polling_interval \in intervals
    /\ debug = FALSE
    /\ resume_active_configs = FALSE
    /\ now = StartTime
    /\ time_of_last_poll = 0
    /\ time_of_last_nonempty_poll = 0
    /\ pc = start
    /\ identifiers = <<>>
    /\ identifier = NoId
    /\ config = "None"
    /\ result = "None"
    /\ cs = NoCall
    /\ exc = ""
    /\ hooks = {}
    /\ faults \in faultsets
    /\ polls = 0
    /\ adds = 0
    /\ active_at_start = {}
    /\ out_at_start = out
    /\ returned = [i \in Ids |-> "-"]
    /\ written = [i \in Ids |-> "-"]

Init == InitWith("setup", {NoTimeout, 1}, {1}, {{}}, {"two"}, {0, 1})

Next ==
    \/ \E t \in Types, c \in consumer_fns : register_config(t, c)
    \/ Run
    \/ ResumePoll
    \/ ResumeNext
    \/ ChangeStateMove
    \/ ChangeStateRecord
    \/ Poll
    \/ GetConfig
    \/ RunConsumer
    \/ WriteOutput
    \/ Timeout
    \/ Wait
    \/ PollAgain
    \/ Tick
    \/ AddFile

Spec == Init /\ [][Next]_vars

(* ------------------- the store with failing moves or writes ----------- *)

InitMove == InitWith("setup", {NoTimeout, 1}, {1}, {{"move"}}, {"two"}, {0, 1})
SpecMove == InitMove /\ [][Next]_vars

InitWrite == InitWith("setup", {NoTimeout, 1}, {1}, {{"write"}}, {"two"}, {0, 1})
SpecWrite == InitWrite /\ [][Next]_vars

(* ------------- the adapter alone, called by any client code ----------- *)

\* poll_directory(state), called directly
ApiPollDirectory ==
    /\ pc = "api"
    /\ \E state \in ConfigState : \E scan \in Orders(NewEntries(state)) :
          /\ identifier_states' = Registered(state)
          /\ order' = order \o scan
          /\ identifiers' = poll_result(Registered(state), order \o scan, state)
    /\ exc' = ""
    /\ UNCHANGED <<store, settings, runargs, clock, pc, identifier, config, result, cs,
                   hooks, faults, adds, history>>

\* change_state(identifier, next_state, validate_change), called directly
ApiChangeState ==
    /\ pc = "api"
    /\ \E i \in Ids, next_state \in ConfigState, validate_change \in BOOLEAN :
          cs' = Call(i, next_state, validate_change, "api", "api")
    /\ pc' = "change_state"
    /\ exc' = ""
    /\ UNCHANGED <<store, adapter, settings, runargs, clock, locals, hooks, faults,
                   adds, history>>

\* write_output(identifier, output), called directly: any name, tracked or not,
\* any text; an OSError of open or write reaches the caller
ApiWriteOutput ==
    /\ pc = "api"
    /\ \E i \in Ids, output \in Outputs, o \in WriteOutcomes :
          /\ Len(out[i].chunks) < MaxChunks
          /\ out' \in write_output(i, output, o)
          /\ exc' = IF o = "ok" THEN "" ELSE "OSError"
    /\ UNCHANGED <<doc, adapter, settings, runargs, clock, pc, locals, cs, hooks,
                   faults, adds, history>>

InitApi == InitWith("api", {NoTimeout}, {1}, {{}, {"move"}}, {"two"}, {0})

NextApi ==
    \/ ApiPollDirectory
    \/ ApiChangeState
    \/ ApiWriteOutput
    \/ ChangeStateMove
    \/ ChangeStateRecord

SpecApi == InitApi /\ [][NextApi]_vars

\* the same calls on a store whose writes fail, which holds planned/a.yaml alone
InitApiWrite ==
    /\ InitWith("api", {NoTimeout}, {1}, {{"write"}}, {"two"}, {0})
    /\ doc = [i \in Ids |-> IF i = "a.yaml" THEN [NoFiles EXCEPT !["planned"] = "A"]
                                              ELSE NoFiles]
SpecApiWrite == InitApiWrite /\ [][NextApi]_vars

(* ------------------------ a client with timeout=0 -------------------- *)

InitZero == InitWith("setup", {0, 1}, {1}, {{}}, {"two"}, {0, 1})
SpecZero == InitZero /\ [][Next]_vars

(* ---------------------- a run of unbounded length -------------------- *)

\* The clock and the count of polls are followed up to MaxTime and MaxPolls.
\* To follow a run beyond them the observer shifts the clock and the two
\* timestamps back by one and forgets one poll.  run() reads the clock only in
\* "time() - time_of_last_nonempty_poll > timeout" and in "min_polling_interval
\* - (time() - time_of_last_poll)"; the shift keeps both differences, but for a
\* timestamp held at 0, whose distance stays at least MaxTime - 1, above the
\* timeout and the interval.
Rebase ==
    /\ Running
    /\ now = MaxTime \/ polls = MaxPolls
    /\ LET shift == IF now = MaxTime THEN 1 ELSE 0
           back(t) == IF t >= shift THEN t - shift ELSE 0 IN
       /\ now' = now - shift
       /\ time_of_last_poll' = back(time_of_last_poll)
       /\ time_of_last_nonempty_poll' = back(time_of_last_nonempty_poll)
    /\ polls' = IF polls = MaxPolls THEN polls - 1 ELSE polls
    /\ UNCHANGED <<store, adapter, settings, runargs, pc, locals, cs, exc, hooks,
                   faults, adds, active_at_start, out_at_start, returned, written>>

\* a step of the script: the interpreter goes on as long as run() has not ended
ScriptStep ==
    \/ Run
    \/ ResumePoll
    \/ ResumeNext
    \/ ChangeStateMove
    \/ ChangeStateRecord
    \/ Poll
    \/ GetConfig
    \/ RunConsumer
    \/ WriteOutput
    \/ Timeout
    \/ Wait
    \/ PollAgain

InitLive == InitWith("setup", {1}, {1}, {{}}, {"two"}, {0, 1})

NextLive ==
    \/ Next
    \/ Rebase

\* The script runs on: sleep() returns, a consumer returns or raises, and the
\* interpreter executes the next statement.  Nothing is assumed about the
\* operator (AddFile) or about time passing between two statements (Tick).
SpecLive == InitLive /\ [][NextLive]_vars /\ WF_vars(ScriptStep) /\ WF_vars(Rebase)

(* ------------- a script whose callback has a method that raises ------- *)

InitHooks == InitWith("setup", {1}, {1}, {{h} : h \in HookNames}, {"two"}, {0, 1})
SpecHooks == InitHooks /\ [][Next]_vars

(* ------------- a script that defines consumers of both shapes --------- *)

InitShapes == InitWith("setup", {1}, {1}, {{}}, {"one", "two"}, {0, 1})
SpecShapes == InitShapes /\ [][Next]_vars

(* ============================== claims ================================= *)

InSeq(i, seq) == \E k \in 1..Len(seq) : seq[k] = i

\* change_state(i, completed) of the main loop is under way
Completing(i) ==
    /\ pc \in {"change_state", "record_state"}
    /\ cs.identifier = i
    /\ cs.next_state = "completed"
    /\ cs.validate_change
    /\ cs.ret = "for"

\* the first iteration of the main loop has run to its end
FirstIterationOver ==
    \/ polls = 1 /\ (EndOfIteration \/ pc = "poll" \/ pc = "returned")
    \/ polls > 1

\* what planned/<i> decodes to
Planned(i) == doc[i]["planned"]

\* planned/<i> decodes to a config whose type has a consumer
HasConsumer(i) == Planned(i) \in Types /\ config_consumers[Planned(i)] # NoConsumer

\* planned/<i> decodes to a config whose type has no consumer
Unregistered(i) == Planned(i) \in Types /\ config_consumers[Planned(i)] = NoConsumer

(* ---- C1 ---- *)
\* C1: every change of a tracked identifier's state is planned -> active or
\* active -> completed; active -> planned happens only in the recovery, in a
\* change_state called with validate_change=False; a completed identifier never
\* changes state again, and no identifier is ever dropped from the table.
C1_Step ==
    \A i \in Ids :
        (identifier_states[i] # Untracked /\ identifier_states'[i] # identifier_states[i]) =>
            /\ identifier_states[i] # "completed"
            /\ \/ /\ identifier_states[i] = "planned"
                  /\ identifier_states'[i] = "active"
               \/ /\ identifier_states[i] = "active"
                  /\ identifier_states'[i] = "completed"
               \/ /\ identifier_states[i] = "active"
                  /\ identifier_states'[i] = "planned"
                  /\ pc = "record_state"
                  /\ cs.ret = "resume_for"
                  /\ ~cs.validate_change
                  /\ polls = 0
C1_Transitions == [][C1_Step]_vars

\* a job found active at the start went active -> planned -> active -> completed
C1_Witness ==
    \E i \in Ids : i \in active_at_start /\ identifier_states[i] = "completed"

(* ---- C2 ---- *)
\* the table and the store agree about i: its file is in the directory of its
\* state
Agrees(i) == i \in dirs[identifier_states[i]]

C2_State ==
    \A i \in Tracked :
        IF pc = "record_state" /\ cs.identifier = i
        THEN \* between the two steps of change_state the file is already moved
             i \in dirs[cs.next_state]
        ELSE Agrees(i)

C2_Step ==
    /\ \* the table is written only by line 53, after the move
       \A i \in Tracked :
          identifier_states'[i] # identifier_states[i] =>
              /\ pc = "record_state"
              /\ cs.identifier = i
              /\ i \in dirs[identifier_states'[i]]
              /\ dirs' = dirs
    /\ \* a failed move reaches the caller and changes nothing
       (pc = "change_state" /\ pc' # "record_state") =>
              /\ pc' = cs.onraise
              /\ exc' \in {"OSError", "ValueError", "KeyError"}
              /\ dirs' = dirs
              /\ identifier_states' = identifier_states
    /\ \* the file is in that directory only, as far as the engine goes: a name
       \* comes into a directory by the move of change_state, which takes it out
       \* of the directory of its state, or by the operator's hand, in planned/
       \A i \in Ids, d \in ConfigState :
          /\ (i \in dirs'[d] /\ i \notin dirs[d]) =>
                \/ /\ pc = "change_state"
                   /\ cs.identifier = i
                   /\ cs.next_state = d
                   /\ i \notin dirs'[identifier_states[i]]
                \/ d = "planned" /\ adds' = adds + 1
          /\ (i \in dirs[d] /\ i \notin dirs'[d]) =>
                /\ pc = "change_state"
                /\ cs.identifier = i
                /\ identifier_states[i] = d
                /\ i \in dirs'[cs.next_state]

\* C2: outside change_state every tracked identifier's file is in the directory
\* of its recorded state, and the engine never leaves or makes a file of that
\* name in another directory; change_state moves the file first and records
\* the state afterwards; when the move fails the error reaches the caller with
\* the table and the directories unchanged.
C2_TableAgreesWithStore == [](C2_State) /\ [][C2_Step]_vars

\* one job was completed, the move of another failed and ended the run
C2_Witness ==
    /\ pc = "raised"
    /\ exc = "OSError"
    /\ \E i, j \in Tracked :
          /\ identifier_states[i] = "completed"
          /\ identifier_states[j] = "active"
          /\ Agrees(i)
          /\ Agrees(j)

(* ---- C3 ---- *)
\* C3: change_state with validation, for a tracked identifier and any pair
\* (current, next) other than (planned, active) and (active, completed), raises
\* ValueError to the caller and changes neither the directories, nor the
\* sidecars, nor the table.
C3_Step ==
    (/\ pc = "change_state"
     /\ cs.identifier \in Tracked
     /\ cs.validate_change
     /\ ~ \/ identifier_states[cs.identifier] = "planned" /\ cs.next_state = "active"
          \/ identifier_states[cs.identifier] = "active" /\ cs.next_state = "completed")
    => /\ pc' = cs.onraise
       /\ exc' = "ValueError"
       /\ dirs' = dirs
       /\ out' = out
       /\ identifier_states' = identifier_states
       /\ order' = order
C3_InvalidChangeHasNoEffect == [][C3_Step]_vars

\* a validated change_state of a completed identifier was refused
C3_Witness ==
    /\ pc = "api"
    /\ exc = "ValueError"
    /\ \E i \in Tracked : identifier_states[i] = "completed" /\ Agrees(i)

(* ---- C4 ---- *)
\* what a consumer can raise: an Exception, or a BaseException that is none
Raises == {"raise", "exit"}

C4_State(kinds) ==
    \A i \in Ids :
        (~debug /\ returned[i] \in kinds) =>
            /\ written[i] = "-"
            /\ out[i] = out_at_start[i]
            /\ ~(pc = "raised" /\ identifier = i)
            /\ exc # "ConsumerError"
            /\ \/ identifier_states[i] = "completed" /\ i \in dirs["completed"]
               \/ /\ Completing(i)
                  /\ <<"failed_to_run_config", i>> \in hooks

C4_Step(kinds) ==
    \A i \in Ids :
        (~debug /\ pc = "run_consumer" /\ returned[i] = "-" /\ returned'[i] \in kinds) =>
            /\ <<"failed_to_run_config", i>> \in hooks'
            /\ identifiers' = identifiers
            /\ polls' = polls
            /\ \A j \in Ids : identifier_states'[j] = identifier_states[j]
            /\ dirs' = dirs
            /\ Completing(i)'

\* C4, as claimed: with debug=false, when the consumer of a job raises, whatever
\* it raises, the failed-to-run hook is notified, nothing is written to the
\* job's sidecar, the job is completed before the loop goes on (same
\* iteration), the exception does not leave run(), and the rest of the poll's
\* list and every other state are as they were, so that the loop goes on with
\* the next identifier.
C4_ConsumerFailureContained == [](C4_State(Raises)) /\ [][C4_Step(Raises)]_vars

\* C4, amended: with debug=false, when the consumer of a job raises an
\* Exception, the failed-to-run hook is notified, nothing is written to the
\* job's sidecar, the job is completed in the same iteration, the exception
\* does not leave run(), and the rest of the poll's list and every other state
\* are as they were.  (SystemExit and KeyboardInterrupt are no Exception: they
\* end run(), as its docstring says of an interrupt.)
C4_ExceptionContained == [](C4_State({"raise"})) /\ [][C4_Step({"raise"})]_vars

\* in one poll the first job's consumer raised, and the second job was then run
\* and its result written
C4_Witness ==
    /\ ~debug
    /\ polls = 1
    /\ Len(order) = 2
    /\ returned[order[1]] = "raise"
    /\ identifier_states[order[1]] = "completed"
    /\ returned[order[2]] = "'hi'"
    /\ written[order[2]] = "ok"
    /\ identifier_states[order[2]] = "completed"
    /\ active_at_start = {}

(* ---- C5 ---- *)
\* C5: with debug=true, when the consumer of a job raises, whatever it raises,
\* the exception leaves run(), the job stays active (table and file: its
\* completion is not even begun), and no later identifier of that poll is
\* decoded, activated or dispatched.
C5_DebugFailurePropagates ==
    \A i \in Ids :
        (debug /\ returned[i] \in Raises) =>
            /\ pc = "raised"
            /\ exc = (IF returned[i] = "raise" THEN "ConsumerError" ELSE "SystemExit")
            /\ identifier = i
            /\ identifier_states[i] = "active"
            /\ i \in dirs["active"]
            /\ ~Completing(i)
            /\ written[i] = "-"
            /\ returned[i] = "raise" => <<"failed_to_run_config", i>> \in hooks
            /\ \A j \in Ids :
                  InSeq(j, identifiers) =>
                      /\ identifier_states[j] = "planned"
                      /\ j \in dirs["planned"]
                      /\ returned[j] = "-"
                      /\ <<"config_loaded", j>> \notin hooks

\* the first job of a poll of two raised in debug mode
C5_Witness ==
    /\ debug
    /\ pc = "raised"
    /\ Len(identifiers) = 1
    /\ returned[identifier] = "raise"
    /\ returned[identifiers[1]] = "-"
(* ---- C6 ---- *)
\* C6: in a run started with no sidecar for the job, for every job that reaches
\* completed: if its consumer returned the non-null serializable value 'hi', the
\* sidecar exists and holds exactly json.dumps of it, the text "hi" in double
\* quotes, written once; if its consumer returned None, no sidecar exists.
C6_SidecarHoldsResult ==
    \A i \in Ids :
        (identifier_states[i] = "completed" /\ ~out_at_start[i].exists) =>
            /\ returned[i] = "'hi'" =>
                  out[i] = [exists |-> TRUE, chunks |-> <<"\"hi\"">>]
            /\ returned[i] = "None" =>
                  out[i] = [exists |-> FALSE, chunks |-> <<>>]

\* one completed job has its result in the sidecar, another returned None
C6_Witness ==
    \E i, j \in Ids :
        /\ identifier_states[i] = "completed"
        /\ identifier_states[j] = "completed"
        /\ ~out_at_start[i].exists
        /\ ~out_at_start[j].exists
        /\ returned[i] = "'hi'"
        /\ out[i].exists
        /\ returned[j] = "None"

(* ---- C7 ---- *)
C7_State ==
    \A i \in Ids :
        (~debug /\ written[i] \in {"serialize", "write"}) =>
            /\ exc \notin {"TypeError", "OSError"}
            /\ ~(pc = "raised" /\ identifier = i)
            /\ \/ identifier_states[i] = "completed" /\ i \in dirs["completed"]
               \/ /\ Completing(i)
                  /\ <<"failed_to_write_result", i>> \in hooks
            /\ written[i] = "serialize" =>
                  /\ out[i] = out_at_start[i]
                  /\ ~out_at_start[i].exists => ~out[i].exists

C7_Step ==
    \A i \in Ids :
        (/\ ~debug
         /\ pc = "write_output"
         /\ written[i] = "-"
         /\ written'[i] \in {"serialize", "write"})
        => /\ <<"failed_to_write_result", i>> \in hooks'
           /\ returned[i] \notin {"-", "raise", "None"}
           /\ Completing(i)'

\* C7: with debug=false, when a consumer returns a non-null result that
\* json.dumps rejects or that write_output fails to write, the
\* failed-to-write hook is notified, the exception does not leave run(), the
\* job is completed before the loop goes on, and a failed serialization
\* leaves the sidecar as it was when the run started: none, if there was none.
C7_WriteFailureContained == [](C7_State) /\ [][C7_Step]_vars

\* one job's result could not be serialized, the write of another's failed
\* after two characters were in the sidecar, and both jobs are completed
C7_Witness ==
    /\ ~debug
    /\ \E i, j \in Ids :
          /\ written[i] = "serialize"
          /\ identifier_states[i] = "completed"
          /\ ~out[i].exists
          /\ written[j] = "write"
          /\ identifier_states[j] = "completed"
          /\ ~out_at_start[j].exists
          /\ out[j].chunks = <<"\"h">>

(* ---- C8 ---- *)
C8_State ==
    resume_active_configs =>
        /\ pc # "resume" => active_at_start \subseteq Tracked
        /\ (polls = 0 /\ pc = "poll") =>
              \A i \in active_at_start :
                  /\ identifier_states[i] = "planned"
                  /\ i \in dirs["planned"]
                  /\ i \notin dirs["active"]
        /\ polls = 0 => pc # "raised"
        /\ FirstIterationOver =>
              \A i \in active_at_start :
                  HasConsumer(i) =>
                      /\ identifier_states[i] = "completed"
                      /\ i \in dirs["completed"]
                      /\ returned[i] # "-"

C8_Step ==
    resume_active_configs =>
        /\ (pc = "resume_for" /\ pc' = "change_state") =>
              /\ ~cs'.validate_change
              /\ cs'.next_state = "planned"
              /\ cs'.identifier \in active_at_start
              /\ identifier_states[cs'.identifier] = "active"
        /\ (polls = 0 /\ polls' = 1) =>
              \A i \in active_at_start : InSeq(i, identifiers')

\* C8: run(resume_active_configs=True): before the first poll of the main loop
\* every identifier whose file was in active/ at the start is registered and
\* back in planned (table and file), by change_state calls with
\* validate_change=False, none of which raises; the first poll returns these
\* identifiers, and when the first iteration has run to its end those that
\* decode to a config with a registered consumer are completed.
C8_ResumeActive == [](C8_State) /\ [][C8_Step]_vars

\* two jobs found active were resumed and completed in the first iteration
C8_Witness ==
    /\ resume_active_configs
    /\ FirstIterationOver
    /\ active_at_start = Ids
    /\ \A i \in Ids : identifier_states[i] = "completed" /\ returned[i] # "-"

(* ---- C9 ---- *)
C9_State ==
    \A i \in Ids :
        (identifier_states[i] = "planned" /\ Unregistered(i)) =>
            /\ i \in dirs["planned"]
            /\ returned[i] = "-"
            /\ written[i] = "-"
            /\ (polls >= 1 /\ (EndOfIteration \/ pc = "returned")) =>
                  /\ <<"config_loaded", i>> \in hooks
                  /\ <<"unregistered_config", i>> \in hooks

C9_Step ==
    \A i \in Ids :
        (identifier_states[i] = "planned" /\ Unregistered(i)) =>
            /\ identifier_states'[i] = "planned"
            /\ i \in dirs'["planned"]
            /\ Unregistered(i)'
            /\ returned'[i] = "-"
            /\ polls' = polls + 1 => InSeq(i, identifiers')

\* C9: a planned job whose decoded type has no registered consumer is never
\* state-changed: it stays planned (table and file), every later poll returns
\* it again, and every iteration that runs to its end has notified the
\* unregistered-config hook for it, without any consumer being called for it.
C9_UnregisteredStaysPlanned == [](C9_State) /\ [][C9_Step]_vars

\* after two iterations an unregistered job is still planned and was reported
\* again, while another job of the store was run and completed
C9_Witness ==
    /\ polls = 2
    /\ EndOfIteration
    /\ \E i, j \in Ids :
          /\ identifier_states[i] = "planned"
          /\ Unregistered(i)
          /\ <<"unregistered_config", i>> \in hooks
          /\ identifier_states[j] = "completed"
          /\ returned[j] # "-"

(* ---- C10 ---- *)
\* C10: a job document that is malformed or carries an unknown tag makes
\* get_config return None instead of raising: the document is reported, the
\* identifier stays planned, and the decode failure never ends run(), in debug
\* and in non-debug mode.
C10_DecodeFailureSkipped ==
    /\ ~(pc = "raised" /\ exc = "YAMLError")
    /\ \A i \in Ids :
          (/\ identifier_states[i] = "planned"
           /\ Planned(i) \in {"fields", "broken"}
           /\ polls >= 1
           /\ EndOfIteration)
          => /\ i \in dirs["planned"]
             /\ <<"config_loaded", i>> \in hooks
             /\ <<"unregistered_config", i>> \in hooks

(* ---- C11 ---- *)
\* a step of the script before run(): a registration
C11_Registration == pc = "setup" /\ pc' = "setup"

C11_Step ==
    /\ \* a class that has a consumer keeps that consumer, whatever happens
       \A t \in Types :
          config_consumers[t] # NoConsumer => config_consumers'[t] = config_consumers[t]
    /\ \* a registration that changes the registry adds one class and does not raise
       (C11_Registration /\ config_consumers' # config_consumers) =>
          /\ exc' = exc
          /\ \E t \in Types :
                /\ config_consumers[t] = NoConsumer
                /\ config_consumers'[t] \in consumer_fns
                /\ \A u \in Types \ {t} : config_consumers'[u] = config_consumers[u]
    /\ \* a registration that raises names a class that had a consumer already
       (C11_Registration /\ exc' # exc) =>
          /\ config_consumers' = config_consumers
          /\ \E t \in Types :
                /\ exc' = AlreadyRegistered(t)
                /\ config_consumers[t] # NoConsumer

\* C11: register_config for a class that already has a consumer raises at once,
\* before run(), and leaves the registry as it was: the first consumer stays the
\* one of that class, through every later registration and through the run;
\* each class has at most one consumer.
C11_DuplicateRegistrationRaises == [][C11_Step]_vars

\* both classes have a consumer, of different shapes, and a second registration
\* for class A has just raised
C11_Witness ==
    /\ pc = "setup"
    /\ config_consumers["A"] = "two"
    /\ config_consumers["B"] = "one"
    /\ exc = AlreadyRegistered("A")

(* ---- C12 ---- *)
\* a timeout is set (timeout=0 counts as none) and, at the timeout check, more
\* than that time has passed since the last poll that found something
C12_Expired ==
    /\ timeout \notin {NoTimeout, 0}
    /\ now - time_of_last_nonempty_poll > timeout

C12_State ==
    /\ pc = "returned" =>
          /\ <<"timeout", NoId>> \in hooks
          /\ C12_Expired
    /\ <<"timeout", NoId>> \in hooks => pc = "returned"
    /\ timeout = NoTimeout => pc # "returned"

C12_Step ==
    /\ \* run() returns from the timeout check, and from nowhere else
       pc' = "returned" => (pc = "returned" \/ EndOfIteration)
    /\ \* at the timeout check: return exactly when the time has expired
       (EndOfIteration /\ C12_Expired) =>
          /\ pc' = "returned"
          /\ hooks' = hooks \cup {<<"timeout", NoId>>}
          /\ UNCHANGED <<store, adapter, clock, polls, returned, written>>
    /\ (EndOfIteration /\ ~C12_Expired) => pc' # "returned"
    /\ \* after the return nothing happens any more
       pc = "returned" => UNCHANGED vars

\* C12: run() returns normally only from the timeout check, directly after the
\* timeout hook, and it does so exactly when a timeout is set and the time since
\* the last non-empty poll exceeds it at that check; after the timeout hook there
\* is no poll, dispatch, waiting hook or sleep; with timeout=None run() never
\* returns normally.
C12_ReturnsOnlyOnTimeout == [](C12_State) /\ [][C12_Step]_vars

\* the first poll found a job, the second poll found nothing and came more than
\* the timeout after the first: run() returned
C12_Witness ==
    /\ pc = "returned"
    /\ polls = 2
    /\ time_of_last_nonempty_poll = StartTime
    /\ time_of_last_poll > time_of_last_nonempty_poll
    /\ hooks = {<<"no_configs_found", NoId>>, <<"timeout", NoId>>}
    /\ \E i \in Ids : identifier_states[i] = "completed"

(* ---- C13 ---- *)
\* C13: only idle time counts toward the timeout: run() never returns by
\* timeout at the end of an iteration whose poll found jobs, since at that
\* check all the time since the poll was spent processing them.
C13_OnlyIdleTimeCounts ==
    pc = "returned" => time_of_last_poll # time_of_last_nonempty_poll

(* ---- C14 ---- *)
\* min_polling_interval less the time that has passed since this iteration's poll
C14_Remaining == min_polling_interval - (now - time_of_last_poll)

C14_Waiting(h) == \E t \in 0..MaxTime : <<"waiting_for_next_poll", ToString(t)>> \in h

C14_Step ==
    /\ \* the end of an iteration that does not time out
       (EndOfIteration /\ pc' = "poll") =>
          IF C14_Remaining > 0
          THEN /\ hooks' = hooks \cup {<<"waiting_for_next_poll", ToString(C14_Remaining)>>}
               /\ now' = now + C14_Remaining
          ELSE /\ hooks' = hooks
               /\ ~C14_Waiting(hooks')
               /\ now' = now
    /\ \* the waiting hook is notified nowhere else
       (C14_Waiting(hooks') /\ ~C14_Waiting(hooks)) => EndOfIteration
    /\ \* two consecutive polls are at least min_polling_interval apart
       (polls >= 1 /\ polls' = polls + 1) =>
          now - time_of_last_poll >= min_polling_interval

\* C14: at the end of every iteration that does not time out, with remaining =
\* min_polling_interval - (time since this iteration's poll): if remaining > 0
\* the waiting hook is notified with exactly remaining and the loop sleeps that
\* long; otherwise the next poll follows with no waiting hook and no sleep.  Two
\* consecutive polls are never less than min_polling_interval apart.
C14_Pacing == [][C14_Step]_vars

\* the first iteration waited its full interval; the second ran a job that took
\* the whole interval, and the third poll is due without waiting
C14_Witness ==
    /\ pc = "poll"
    /\ polls = 2
    /\ ~C14_Waiting(hooks)
    /\ now - time_of_last_poll = min_polling_interval
    /\ time_of_last_poll = StartTime + min_polling_interval
    /\ time_of_last_nonempty_poll = time_of_last_poll

(* ---- C15 ---- *)
\* C15: with debug=false, after a run in which the consumer of a job raised,
\* the job's file is in none of planned/, active/ and completed/ (it is in a
\* location for failed jobs) and the job has an output sidecar, a default
\* output, so that on disk it differs from a job that succeeded.
C15_FailedJobSetApart ==
    \A i \in Ids :
        (~debug /\ pc = "returned" /\ returned[i] = "raise") =>
            /\ \A d \in ConfigState : i \notin dirs[d]
            /\ out[i].exists

(* ---- C16 ---- *)
\* entries of planned/ that the adapter tracks at another state
C16_Collisions == {i \in dirs["planned"] : identifier_states[i] \notin {Untracked, "planned"}}

C16_Step ==
    (pc = "poll" /\ polls' = polls + 1) =>
        IF C16_Collisions # {}
        THEN /\ pc' = "raised"
             /\ identifier_states' = identifier_states
        ELSE /\ \A i \in dirs["planned"] : identifier_states'[i] = "planned"
             /\ \A i \in Ids : InSeq(i, identifiers') <=> identifier_states'[i] = "planned"
             /\ \A i \in Tracked : identifier_states'[i] = identifier_states[i]

\* C16: poll_directory(planned) registers every entry it sees for the first time
\* as planned and returns the identifiers tracked as planned; an entry that is
\* tracked at the same state is left as it is; an entry that is tracked at a
\* different state makes the poll fail with a duplicate-identifier error.
C16_PollRejectsCollision == [][C16_Step]_vars

(* ---- C17 ---- *)
C17_Step ==
    (pc = "run_consumer" /\ pc' # "run_consumer") =>
        /\ \* the call of a consumer of either shape is no failure of the consumer
           config_consumers[config] = "one" =>
              /\ returned'[identifier] \in Results
              /\ <<"failed_to_run_config", identifier>> \notin hooks'
              /\ pc' # "raised"
        /\ \* what the consumer returns is treated alike for both shapes
           returned'[identifier] \in Results =>
              /\ result' = returned'[identifier]
              /\ IF result' = "None" THEN Completing(identifier)' ELSE pc' = "write_output"

\* C17: a consumer that takes the config alone is called with the config, one
\* that takes (config, identifier) is called with both; for either shape a
\* returned value is handled alike (written unless None, job completed), and
\* the call as such is never reported as a failure of the consumer.
C17_BothShapesSupported == [][C17_Step]_vars

(* ---- C18 ---- *)
\* the step is no failure of a consumer, of json.dumps or of write_output
C18_NoFailure ==
    /\ returned'[identifier] \notin Raises
    /\ written'[identifier] \notin {"serialize", "write"}

C18_Step ==
    /\ \* a step of the consumer call or of the output write in which nothing
       \* fails is, unchanged, a step of the other mode
       /\ (pc = "run_consumer" /\ C18_NoFailure /\ RunConsumer) => RunConsumerIn(~debug)
       /\ (pc = "write_output" /\ C18_NoFailure /\ WriteOutput) => WriteOutputIn(~debug)
    /\ \* the mode is read nowhere else: a step that ends run() with an exception
       \* of a consumer or of a write is a step that failed
       (pc \in {"run_consumer", "write_output"} /\ pc' = "raised") => ~C18_NoFailure
    /\ \* the mode never changes during a run
       pc # "setup" => debug' = debug

\* C18: debug changes the behaviour only where a consumer raises or where
\* serializing or writing a result fails: every other step of run(debug=True),
\* with the hooks it notifies, the state changes and the output it writes, is
\* also a step of run(debug=False), and the other way round, including the
\* steps that report undecodable documents and unregistered classes.
C18_DebugOnlyOnFailure == [][C18_Step]_vars

\* a run in debug mode wrote the result of one job, reported another whose
\* fields do not fit its class, and reached the end of its second iteration
C18_Witness ==
    /\ debug
    /\ polls = 2
    /\ EndOfIteration
    /\ \E i, j \in Ids :
          /\ written[i] = "ok"
          /\ identifier_states[i] = "completed"
          /\ Planned(j) = "fields"
          /\ <<"unregistered_config", j>> \in hooks

(* ---- C19 ---- *)
\* the script is in the main loop of run(), past the recovery
C19_InMainLoop ==
    /\ Running
    /\ pc \notin {"resume", "resume_for"}
    /\ pc \in {"change_state", "record_state"} => cs.ret # "resume_for"

C19_Active == {i \in Ids : identifier_states[i] = "active"}

C19_State ==
    C19_InMainLoop =>
        /\ Cardinality(C19_Active) <= 1
        /\ \A i \in C19_Active :
              /\ identifier = i
              /\ pc \in {"record_state", "run_consumer", "write_output", "change_state"}
              /\ pc \in {"record_state", "change_state"} => cs.identifier = i

C19_Step ==
    \A i \in Ids :
        (C19_InMainLoop /\ identifier_states[i] = "active") =>
            /\ identifier' = i
            /\ identifiers' = identifiers
            /\ \A j \in Ids \ {i} :
                  /\ identifier_states'[j] = identifier_states[j]
                  /\ \A d \in ConfigState : j \in dirs'[d] <=> j \in dirs[d]
                  /\ returned'[j] = returned[j]
                  /\ written'[j] = written[j]
                  /\ out'[j] = out[j]
                  /\ <<"config_loaded", j>> \in hooks' => <<"config_loaded", j>> \in hooks

\* C19: in the main loop at most one tracked identifier is active, and it is
\* the one the loop is at; while it is active no other identifier is decoded,
\* changes state, has its file moved, has a consumer called or has output
\* written.
C19_OneJobAtATime == [](C19_State) /\ [][C19_Step]_vars

\* the first job of a poll of two is active and its consumer is about to run
\* while the second waits, planned, in the list
C19_Witness ==
    /\ pc = "run_consumer"
    /\ identifier_states[identifier] = "active"
    /\ Len(identifiers) = 1
    /\ identifier_states[identifiers[1]] = "planned"
    /\ HasConsumer(identifiers[1])

(* ---- C20 ---- *)
\* the ways a call of a consumer ends that the statement covers
C20_Ends(kinds) == Results \cup kinds

C20_State(kinds) ==
    \A i \in Ids :
        (~debug /\ polls >= 1 /\ identifier_states[i] = "active"
            /\ returned[i] \in C20_Ends(kinds) \cup {"-"}) =>
            \* the job is being processed: the loop is not at the next identifier,
            \* not at the timeout check, and run() has not ended
            /\ identifier = i
            /\ pc \in {"record_state", "run_consumer", "write_output", "change_state"}
            /\ pc \in {"record_state", "change_state"} => cs.identifier = i

C20_Step(kinds) ==
    ~debug =>
        /\ \* whatever the consumer does, the result is written or the job completed
           (pc = "run_consumer" /\ pc' # "run_consumer"
                /\ returned'[identifier] \in C20_Ends(kinds)) =>
              \/ pc' = "write_output" /\ returned'[identifier] \notin Raises \cup {"None"}
              \/ Completing(identifier)'
        /\ \* whatever becomes of the write, the job is completed next
           (pc = "write_output" /\ pc' # "write_output") => Completing(identifier)'
        /\ \* the completion moves the file, records the state and goes on
           \A i \in Ids :
              /\ (Completing(i) /\ pc = "change_state" /\ pc' # "change_state") =>
                    /\ pc' = "record_state"
                    /\ i \in dirs'["completed"]
              /\ (Completing(i) /\ pc = "record_state" /\ pc' # "record_state") =>
                    /\ identifier_states'[i] = "completed"
                    /\ pc' = "for"
              /\ (polls >= 1 /\ identifier_states[i] = "active"
                     /\ identifier_states'[i] # "active") =>
                    identifier_states'[i] = "completed"

\* C20, as claimed: with debug=false and a store whose moves succeed, every
\* identifier the main loop activates is completed before the loop takes the
\* next identifier and before the timeout check, whether its consumer returned
\* or raised, whatever it raised, and whether its result was written or not; no
\* tracked identifier is active when run() returns by timeout.
C20_BestEffortCompletion == [](C20_State(Raises)) /\ [][C20_Step(Raises)]_vars

\* C20, amended: with debug=false and a store whose moves succeed, every
\* identifier the main loop activates is completed before the loop takes the
\* next identifier and before the timeout check, whether its consumer returned
\* or raised an Exception and whether its result was written or not; no
\* tracked identifier is active when run() returns by timeout.
C20_CompletionUnlessExit == [](C20_State({"raise"})) /\ [][C20_Step({"raise"})]_vars

\* run() returned by timeout after an iteration in which the consumer of one job
\* raised and the result of the other could not be written: both are completed
C20_Witness ==
    /\ ~debug
    /\ pc = "returned"
    /\ \E i, j \in Ids :
          /\ returned[i] = "raise"
          /\ identifier_states[i] = "completed"
          /\ written[j] \in {"serialize", "write"}
          /\ identifier_states[j] = "completed"

(* ---- C21 ---- *)
C21_State ==
    /\ \* the consumer is called for an identifier that is active
       pc = "run_consumer" =>
          /\ identifier_states[identifier] = "active"
          /\ identifier \in dirs["active"]
          /\ returned[identifier] = "-"
    /\ \* json.dumps and write_output are reached with a non-null result of the
       \* consumer, for an identifier that is still active
       pc = "write_output" =>
          /\ identifier_states[identifier] = "active"
          /\ returned[identifier] \in Results \ {"None"}
          /\ result = returned[identifier]
    /\ \* the completion is under way only after the consumer has ended
       \A i \in Ids :
          Completing(i) =>
              /\ returned[i] # "-"
              /\ returned[i] \notin {"raise", "None"} => written[i] # "-"

C21_Step ==
    \A i \in Ids :
        /\ \* the sidecar changes only in write_output, for the active identifier
           (out'[i] # out[i] \/ written'[i] # written[i]) =>
              /\ pc = "write_output"
              /\ identifier = i
              /\ identifier_states[i] = "active"
              /\ identifier_states'[i] = "active"
        /\ \* the main loop completes an identifier after its write, if it had one
           (polls >= 1 /\ identifier_states[i] = "active"
                /\ identifier_states'[i] = "completed") =>
              /\ returned[i] # "-"
              /\ returned[i] \notin {"raise", "None"} => written[i] # "-"

\* C21: for every job the consumer is called only after planned -> active;
\* write_output is called only after the consumer returned a non-null result
\* and while the identifier is active, never for one that is planned or
\* completed; active -> completed comes after the write.
C21_DispatchOrder == [](C21_State) /\ [][C21_Step]_vars

\* the result of a job is in its sidecar while the job is still active, its
\* completion about to move the file
C21_Witness ==
    /\ pc = "change_state"
    /\ Completing(identifier)
    /\ identifier_states[identifier] = "active"
    /\ identifier \in dirs["active"]
    /\ written[identifier] = "ok"
    /\ out[identifier].exists

(* ---- C22 ---- *)
\* C22: in debug and in non-debug mode the failed-to-run hook is notified for a
\* job if and only if its consumer raised; a failure of json.dumps or of
\* write_output is reported through the failed-to-write hook only.
C22_FailuresReportedApart ==
    \A i \in Ids :
        /\ <<"failed_to_run_config", i>> \in hooks => returned[i] = "raise"
        /\ (written[i] \in {"serialize", "write"} /\ identifier = i
               /\ pc \in {"change_state", "record_state", "raised"}) =>
              /\ <<"failed_to_write_result", i>> \in hooks
              /\ <<"failed_to_run_config", i>> \notin hooks
        /\ (returned[i] = "raise" /\ identifier = i
               /\ pc \in {"change_state", "record_state", "raised"}) =>
              /\ <<"failed_to_run_config", i>> \in hooks
              /\ <<"failed_to_write_result", i>> \notin hooks

(* ---- C23 ---- *)
\* C23: when a method of the callback raises, the exception leaves run(), in
\* debug and in non-debug mode: once the raising hook has been notified run()
\* has ended with that exception, and the engine has not reported it through
\* the failed-to-run hook.
C23_HookExceptionPropagates ==
    \A n \in hooks :
        HookRaises(n[1]) =>
            /\ pc = "raised"
            /\ exc = "HookError"
            /\ n[1] = "failed_to_write_result" =>
                  <<"failed_to_run_config", n[2]>> \notin hooks

(* ---- C24 ---- *)
C24_State ==
    \A i \in Ids :
        identifier_states[i] = "completed" =>
            /\ ~InSeq(i, identifiers)
            /\ pc \in {"run_consumer", "write_output"} => identifier # i

C24_Step ==
    \A i \in Ids :
        /\ \* the consumer of an identifier is called at most once
           returned[i] # "-" => returned'[i] = returned[i]
        /\ \* a completed identifier is not polled, decoded or dispatched again
           identifier_states[i] = "completed" =>
              /\ identifier_states'[i] = "completed"
              /\ ~InSeq(i, identifiers')
              /\ identifier' = i => identifier = i
              /\ <<"config_loaded", i>> \in hooks' => <<"config_loaded", i>> \in hooks
              /\ returned'[i] = returned[i]
              /\ written'[i] = written[i]
              /\ out'[i] = out[i]

\* C24: in one run() the consumer is called at most once for an identifier: a
\* completed identifier is never returned by a later poll, never decoded and
\* never dispatched again, in any later iteration.
C24_AtMostOnce == [](C24_State) /\ [][C24_Step]_vars

\* a job was run and completed in the first iteration and the second iteration
\* has run to its end with a new file of that name in planned/
C24_Witness ==
    /\ polls = 2
    /\ EndOfIteration
    /\ \E i \in Ids :
          /\ identifier_states[i] = "completed"
          /\ returned[i] # "-"
          /\ i \in dirs["planned"]

(* ---- C25 ---- *)
\* C25: with a positive timeout, consumers that end, and no file added from some
\* point on, run() eventually ends, by the timeout hook and a return; also when
\* jobs that cannot be dispatched stay in planned/.  (An end of run() by an
\* exception is let pass here: what is asked is that run() does not go on for
\* ever.)
C25_Terminates == (pc = "poll") ~> (pc \in {"returned", "raised"})

(* ---- C26 ---- *)
\* a positive timeout is set and the first poll of run() has found nothing
C26_FirstPollEmpty ==
    /\ timeout \notin {NoTimeout, 0}
    /\ polls = 1
    /\ <<"no_configs_found", NoId>> \in hooks

C26_State ==
    C26_FirstPollEmpty =>
        /\ pc \in {"for", "returned"}
        /\ now = time_of_last_poll
        /\ hooks \subseteq {<<"no_configs_found", NoId>>, <<"timeout", NoId>>}
        /\ pc = "returned" <=> <<"timeout", NoId>> \in hooks

C26_Step ==
    (C26_FirstPollEmpty /\ pc = "for") =>
        /\ pc' = "returned"
        /\ hooks' = {<<"no_configs_found", NoId>>, <<"timeout", NoId>>}
        /\ polls' = 1
        /\ now' = now

\* C26: with a positive timeout, when the first poll of run() finds nothing,
\* run() notifies no-configs-found, then timeout, and returns at the end of
\* that iteration: one poll, no waiting hook, no sleep, since the idle time is
\* counted from time 0 and not from the start of the run.
C26_FirstEmptyPollTimesOut == [](C26_State) /\ [][C26_Step]_vars

\* run() has returned after a single, empty poll
C26_Witness ==
    /\ pc = "returned"
    /\ polls = 1
    /\ time_of_last_nonempty_poll = 0
    /\ now = StartTime
    /\ hooks = {<<"no_configs_found", NoId>>, <<"timeout", NoId>>}

(* ---- C27 ---- *)
\* C27: a job that an interrupted run left active with its output written, and
\* that run(resume_active_configs=True) recovers, runs again and completes, has
\* a sidecar that holds exactly one serialized result, that of a single call
\* of its consumer.
C27_SidecarHoldsOneResult ==
    \A i \in Ids :
        (/\ resume_active_configs
         /\ i \in active_at_start
         /\ identifier_states[i] = "completed"
         /\ returned[i] = "'hi'"
         /\ written[i] = "ok")
        => out[i] = [exists |-> TRUE, chunks |-> <<"\"hi\"">>]

(* ---- C28 ---- *)
\* C28: every job file that is in planned/ when a poll occurs, and that decodes
\* to a config with a registered consumer, is dispatched in that iteration,
\* whatever its name: at the end of an iteration no such file is left in
\* planned/, not even one named like a job the adapter tracks as completed.
C28_EveryPlannedFileDispatched ==
    (polls >= 1 /\ EndOfIteration) =>
        \A i \in dirs["planned"] : ~HasConsumer(i)

(* ---- C29 ---- *)
C29_State ==
    (~resume_active_configs /\ pc # "setup") =>
        \A i \in active_at_start :
            /\ identifier_states[i] = Untracked
            /\ ~InSeq(i, order)
            /\ i \in dirs["active"]
            /\ identifier # i
            /\ ~InSeq(i, identifiers)
            /\ <<"config_loaded", i>> \notin hooks
            /\ returned[i] = "-"
            /\ written[i] = "-"
            /\ out[i] = out_at_start[i]

C29_Step ==
    (~resume_active_configs /\ pc # "setup") =>
        \A i \in active_at_start : doc'[i]["active"] = doc[i]["active"] /\ out'[i] = out[i]

\* C29: with resume_active_configs=False the job files that are in active/ when
\* run() starts are left alone for the whole run: their names never registered
\* in the table, the files never moved, never decoded, never dispatched, their
\* content and their sidecar unchanged.
C29_ActiveLeftUntouched == [](C29_State) /\ [][C29_Step]_vars

\* two iterations have run and completed a job while another file lay in
\* active/ from the start
C29_Witness ==
    /\ ~resume_active_configs
    /\ polls = 2
    /\ EndOfIteration
    /\ \E i, j \in Ids :
          /\ i \in active_at_start
          /\ i \in dirs["active"]
          /\ out[i].exists
          /\ identifier_states[j] = "completed"
          /\ returned[j] # "-"

(* ---- C30 ---- *)
C30_State ==
    timeout = 0 =>
        /\ pc # "returned"
        /\ <<"timeout", NoId>> \notin hooks

C30_Step ==
    \* the timeout check lets the loop go on to the pacing and the next poll
    (timeout = 0 /\ EndOfIteration) =>
        /\ pc' = "poll"
        /\ polls' = polls

\* C30: SchedulingClient(timeout=0) behaves like timeout=None: the timeout hook
\* is never notified and run() never returns normally, however long ago the
\* last non-empty poll was; every iteration goes on to the next poll.
C30_TimeoutZeroIsNone == [](C30_State) /\ [][C30_Step]_vars

\* with timeout=0 two polls found nothing, the clock far past the baseline 0,
\* and the run goes on
C30_Witness ==
    /\ timeout = 0
    /\ polls = 2
    /\ pc = "poll"
    /\ time_of_last_nonempty_poll = 0
    /\ now > StartTime
    /\ <<"no_configs_found", NoId>> \in hooks

====
